---- MODULE Spec2Model ----
(***************************************************************************)
(* Model of the efficiency scoring and ranking code of app.py: getScore,  *)
(* normalize, getTop, the ranking part of home, and the name lookup of    *)
(* viewAccount / viewUser.                                                *)
(*                                                                         *)
(* A Python call either returns a value or raises an exception; every     *)
(* operator that models Python code yields a record                       *)
(*     [kind |-> "return", exc |-> "", val |-> v]   or                    *)
(*     [kind |-> "raise",  exc |-> <exception class>, val |-> <<>>].      *)
(* Numbers that the code divides are kept as exact fractions <<n, d>>     *)
(* with d > 0 (Python's / is true division).                              *)
(* A dict passed to a call is an object the call can assign into: heap    *)
(* holds the dicts a call was given as they are when the call has ended.  *)
(***************************************************************************)
EXTENDS Integers, Sequences, FiniteSets, TLC

VARIABLES normalize_by_score, ideal_score, pc, request, response, heap

vars == <<normalize_by_score, ideal_score, pc, request, response, heap>>

(* ------------------------------ bounds -------------------------------- *)

\* largest value of a field of a usage record passed to a single-record call
MaxVal == 2
\* largest value of a field of a usage record inside a collection or a ranking
MaxQty == 1
\* largest number of days in a date-keyed collection
MaxDays == 2
\* largest number of accounts / users the database returns
MaxEntities == 2
\* largest num passed to getTop
MaxNum == 2
\* longest name / search string
MaxLen == 2
\* largest number of candidate names
MaxCands == 2
\* largest number of records of a collection or a ranking where the records
\* are followed through the call
MaxFrame == 2

(* --------------------------- Python results --------------------------- *)

Ret(v) == [kind |-> "return", exc |-> "", val |-> v]

Raise(e) == [kind |-> "raise", exc |-> e, val |-> <<>>]

(* ------------------------------ fractions ----------------------------- *)

Frac(n) == <<n, 1>>

FracAdd(x, y) == <<x[1] * y[2] + y[1] * x[2], x[2] * y[2]>>

FracMul(x, y) == <<x[1] * y[1], x[2] * y[2]>>

FracEq(x, y) == x[1] * y[2] = y[1] * x[2]

FracLess(x, y) == x[1] * y[2] < y[1] * x[2]

\* Python's x / y on non-negative numbers: ZeroDivisionError when y is 0
TrueDiv(x, y) ==
    IF y[1] = 0 THEN Raise("ZeroDivisionError")
    ELSE Ret(<<x[1] * y[2], x[2] * y[1]>>)

\* Python's int(x) on a non-negative float: truncation
IntOf(x) == x[1] \div x[2]

(* --------------------------- module namespace ------------------------- *)

\* the names bound in the module's namespace once it is loaded: the imports,
\* the module-level assignments and the function definitions
ModuleGlobals ==
    {"sys", "time", "ConfigParser", "date", "timedelta", "SequenceMatcher",
     "pygal", "Flask", "render_template", "request", "url_for", "redirect",
     "jobstats", "app", "config", "username", "password", "host", "db",
     "normalize_scores_options", "normalize_by_score", "ideal_score", "arg",
     "getScore", "normalize", "getTop", "getTimeframe", "renderGraph", "home",
     "viewAccount", "viewUser"}

\* statistics.mean(xs) on three numbers; the name statistics is looked up in
\* the module namespace when the expression is evaluated
mean(xs) ==
    IF "statistics" \notin ModuleGlobals THEN Raise("NameError")
    ELSE Ret(FracMul(FracAdd(FracAdd(xs[1], xs[2]), xs[3]), <<1, 3>>))

(* ------------------------------ getScore ------------------------------ *)

\* the keys getScore reads
ScoreKeys == {"memuse", "memreq", "cputime", "coresreq", "timeuse", "timereq"}

\* the keys normalize reads and sums
UsageKeys == {"memuse", "memreq", "timeuse", "timereq", "cputime", "cpureq"}

getScore(data, all_scores, nbs, ideal) ==
    IF ~(ScoreKeys \subseteq DOMAIN data) THEN Raise("KeyError")
    ELSE
    LET score_memory == TrueDiv(Frac(data["memuse"]), Frac(data["memreq"]))
        score_cpu    == TrueDiv(Frac(data["cputime"]),
                                Frac(data["coresreq"] * data["timeuse"]))
        score_time   == TrueDiv(Frac(data["timeuse"]), Frac(data["timereq"]))
    IN  IF score_memory.kind = "raise" THEN score_memory
        ELSE IF score_cpu.kind = "raise" THEN score_cpu
        ELSE IF score_time.kind = "raise" THEN score_time
        ELSE
        LET numerator == mean(<<score_memory.val, score_cpu.val, score_time.val>>)
            denominator == IF nbs THEN ideal ELSE 1
        IN  IF numerator.kind = "raise" THEN numerator
            ELSE
            LET q == TrueDiv(numerator.val, Frac(denominator))
            IN  IF q.kind = "raise" THEN q
                ELSE
                LET total == FracMul(q.val, Frac(100))
                IN  IF ~all_scores THEN Ret(total)
                    ELSE Ret([total |-> total, cores |-> score_cpu.val,
                              memory |-> score_memory.val,
                              tlimit |-> score_time.val])

(* ------------------------------ normalize ----------------------------- *)

\* A usage record is a dict: a function from its keys to numbers.  A
\* collection of records by date ({'1/1/18': {...}}) is a dict in insertion
\* order: a sequence of <<date key, record>> pairs with distinct keys.  A date
\* key is a string, kept as the sequence of its characters.
RecordData(rec) == [shape |-> "record", rec |-> rec, items |-> <<>>]

CollectionData(items) == [shape |-> "collection", rec |-> <<>>, items |-> items]

\* the characters of the key names of a usage record
Chars ==
    [memuse  |-> <<"m", "e", "m", "u", "s", "e">>,
     memreq  |-> <<"m", "e", "m", "r", "e", "q">>,
     timeuse |-> <<"t", "i", "m", "e", "u", "s", "e">>,
     timereq |-> <<"t", "i", "m", "e", "r", "e", "q">>,
     cputime |-> <<"c", "p", "u", "t", "i", "m", "e">>,
     cpureq  |-> <<"c", "p", "u", "r", "e", "q">>]

\* the class datetime.date, bound to the module-level name date by the import
DateClass == <<"<class 'datetime.date'>">>

\* name in data, for a dict
Contains(data, name) ==
    IF data.shape = "record" THEN name \in DOMAIN data.rec
    ELSE \E i \in 1..Len(data.items) : data.items[i][1] = Chars[name]

\* items[key] on a dict kept as a sequence of pairs
Lookup(items, key) ==
    IF \E i \in 1..Len(items) : items[i][1] = key
    THEN Ret(items[CHOOSE i \in 1..Len(items) : items[i][1] = key][2])
    ELSE Raise("KeyError")

\* the single point branch of normalize
normalizePoint(rec, all_scores, ideal) ==
    IF ~({"memuse", "memreq"} \subseteq DOMAIN rec) THEN Raise("KeyError")
    ELSE
    LET memory == TrueDiv(Frac(rec["memuse"]), Frac(rec["memreq"]))
    IN  IF memory.kind = "raise" THEN memory
        ELSE IF ~({"timeuse", "timereq"} \subseteq DOMAIN rec) THEN Raise("KeyError")
        ELSE
        LET time == TrueDiv(Frac(rec["timeuse"]), Frac(rec["timereq"]))
        IN  IF time.kind = "raise" THEN time
            ELSE IF ~({"cputime", "cpureq"} \subseteq DOMAIN rec) THEN Raise("KeyError")
            ELSE
            LET cpu == TrueDiv(Frac(rec["cputime"]),
                               Frac(rec["timeuse"] * rec["cpureq"]))
            IN  IF cpu.kind = "raise" THEN cpu
                ELSE
                LET m == mean(<<memory.val, time.val, cpu.val>>)
                IN  IF m.kind = "raise" THEN m
                    ELSE
                    LET score == TrueDiv(m.val, Frac(ideal))
                    IN  IF score.kind = "raise" THEN score
                        ELSE IF all_scores
                        THEN Ret([k \in DOMAIN rec \cup {"total"} |->
                                     IF k = "total" THEN score.val ELSE rec[k]])
                        ELSE score

\* the expression that subscripts data in the by_date loop over day: the
\* module-level name date, whatever the day
ByDateSubscript(day) == DateClass

\* for day in data: scores[day] = normalize(data[date], all_scores=all_scores)
\* from the i-th day on, with the scores gathered so far
RECURSIVE ByDateLoop(_, _, _, _, _)
ByDateLoop(items, i, scores, all_scores, ideal) ==
    IF i > Len(items) THEN Ret(scores)
    ELSE
    LET day == items[i][1]
        got == Lookup(items, ByDateSubscript(day))
    IN  IF got.kind = "raise" THEN got
        ELSE
        LET s == normalizePoint(got.val, all_scores, ideal)
        IN  IF s.kind = "raise" THEN s
            ELSE ByDateLoop(items, i + 1, Append(scores, <<day, s.val>>),
                            all_scores, ideal)

\* data_total[val] += day[val], where day is a key of the collection (a
\* string) and val one of its characters
AddInto(data_total, day, val) ==
    IF ~(\E k \in DOMAIN data_total : Chars[k] = <<val>>) THEN Raise("KeyError")
    ELSE Raise("TypeError")

\* for val in day: data_total[val] += day[val], from the j-th character on
RECURSIVE SumDay(_, _, _)
SumDay(data_total, day, j) ==
    IF j > Len(day) THEN Ret(data_total)
    ELSE
    LET r == AddInto(data_total, day, day[j])
    IN  IF r.kind = "raise" THEN r ELSE SumDay(r.val, day, j + 1)

\* for day in data: ..., from the i-th day on
RECURSIVE SumLoop(_, _, _)
SumLoop(items, i, data_total) ==
    IF i > Len(items) THEN Ret(data_total)
    ELSE
    LET r == SumDay(data_total, items[i][1], 1)
    IN  IF r.kind = "raise" THEN r ELSE SumLoop(items, i + 1, r.val)

normalize(data, all_scores, by_date, ideal) ==
    IF Contains(data, "memuse") THEN normalizePoint(data.rec, all_scores, ideal)
    ELSE IF by_date THEN ByDateLoop(data.items, 1, <<>>, all_scores, ideal)
    ELSE
    LET total == SumLoop(data.items, 1, [k \in UsageKeys |-> 0])
    IN  IF total.kind = "raise" THEN total
        ELSE normalizePoint(total.val, all_scores, ideal)

(* ------------------------------- sorted ------------------------------- *)

\* sorted(seq, key=...)'s ordering of elements whose keys are keys[i]:
\* ascending by key, elements with equal keys in their original order
SortedByKeys(seq, keys) ==
    LET n == Len(seq)
        pos(i) == 1 + Cardinality({j \in 1..n :
                        \/ FracLess(keys[j], keys[i])
                        \/ (FracEq(keys[j], keys[i]) /\ j < i)})
    IN  [p \in 1..n |-> seq[CHOOSE i \in 1..n : pos(i) = p]]

\* sorted(seq, key=...) where results[i] is what the key function does on
\* seq[i]: the keys are all computed first, in order, and an exception of the
\* key function ends the call
Sorted(seq, results) ==
    LET bad == {i \in 1..Len(seq) : results[i].kind = "raise"}
    IN  IF bad # {}
        THEN results[CHOOSE i \in bad : \A j \in bad : i <= j]
        ELSE Ret(SortedByKeys(seq, [i \in 1..Len(seq) |-> results[i].val]))

\* seq[:num], for num >= 0
Prefix(seq, num) == SubSeq(seq, 1, IF num < Len(seq) THEN num ELSE Len(seq))

(* ------------------------------- getTop ------------------------------- *)

\* The database is a list of owner names (db.getUsers / db.getAccounts) and
\* the usage record of each (db.getStats): names is the list, stats[name] the
\* record.

\* the parameters of the key functions of getTop:
\* lambda user, since: ...  and  lambda account, since: ...
KeyFuncParams == <<"owner", "since">>

\* sorted's call key_func(x), with one argument
CallKeyFunc(x, stats, ideal) ==
    IF Len(KeyFuncParams) # 1 THEN Raise("TypeError")
    ELSE IF "getStats" \notin ModuleGlobals THEN Raise("NameError")
    ELSE normalize(RecordData(stats[x]), FALSE, FALSE, ideal)

getTop(account_type, num, names, stats, ideal) ==
    LET all_data_points ==
            IF account_type \in {"users", "accounts"} THEN names ELSE <<>>
        s == Sorted(all_data_points,
                    [i \in 1..Len(all_data_points) |->
                        CallKeyFunc(all_data_points[i], stats, ideal)])
    IN  IF s.kind = "raise" THEN s ELSE Ret(Prefix(s.val, num))

(* -------------------------------- home -------------------------------- *)

\* the key under which a usage record names its owner in the given view
OwnerKey(view) == IF view \in {"none", "cluster", "accounts"} THEN "account" ELSE "user"

\* db.getStats(account=i, ...) / db.getStats(user=i, ...): the usage record
\* with the owner's name
getStats(view, i, stats) ==
    [k \in UsageKeys \cup {OwnerKey(view)} |->
        IF k \in UsageKeys THEN stats[i][k] ELSE i]

\* if data['memreq'] and data['cpureq'] and data['timereq']
Kept(data) == data["memreq"] # 0 /\ data["cpureq"] # 0 /\ data["timereq"] # 0

\* the assignment with key and value the wrong way round: data[i] = 'owner'
AddOwnerSwapped(data, i) ==
    [k \in DOMAIN data \cup {i} |-> IF k = i THEN "owner" ELSE data[k]]

\* data['owner'] = i: the dict data after the assignment
AddOwner(data, i) ==
    [k \in DOMAIN data \cup {"owner"} |-> IF k = "owner" THEN i ELSE data[k]]

\* the loop that gathers job_data: the records, with data['owner'] set, of
\* the owners that pass the test, in the order of data_points
RECURSIVE Gather(_, _, _, _)
Gather(view, data_points, stats, i) ==
    IF i > Len(data_points) THEN <<>>
    ELSE
    LET got  == getStats(view, data_points[i], stats)
        data == AddOwner(got, data_points[i])
    IN  (IF Kept(data) THEN <<data>> ELSE <<>>)
            \o Gather(view, data_points, stats, i + 1)

\* the loop that builds account_ranks from the sorted job_data, from the i-th
\* record on; a row is <<rank, name, total>> (the cores, memory, time limit
\* and job count columns are display values and are left out)
RECURSIVE Rows(_, _, _, _, _)
Rows(view, job_data, i, account_ranks, ideal) ==
    IF i > Len(job_data) THEN Ret(account_ranks)
    ELSE
    LET total == normalize(RecordData(job_data[i]), FALSE, FALSE, ideal)
    IN  IF total.kind = "raise" THEN total
        ELSE Rows(view, job_data, i + 1,
                  Append(account_ranks,
                         <<Len(account_ranks) + 1, job_data[i][OwnerKey(view)],
                           IntOf(total.val)>>),
                  ideal)

home(view, names, stats, ideal) ==
    LET data_points == names
        job_data == Gather(view, data_points, stats, 1)
        s == Sorted(job_data,
                    [i \in 1..Len(job_data) |->
                        normalize(RecordData(job_data[i]), FALSE, FALSE, ideal)])
    IN  IF s.kind = "raise" THEN s
        ELSE Rows(view, s.val, 1, <<>>, ideal)

(* --------------------------- name resolution -------------------------- *)

\* A name or a search string is the sequence of its characters.

\* a[i:i+k] == b[j:j+k], with Python's 0-based indices
BlockMatches(a, b, i, j, k) == \A t \in 0..(k - 1) : a[i + t + 1] = b[j + t + 1]

\* SequenceMatcher.find_longest_match(alo, ahi, blo, bhi) without junk: the
\* longest block a[i:i+k] == b[j:j+k] within the ranges; of those the one
\* that starts earliest in a, and of those the one that starts earliest in b
FindLongestMatch(a, b, alo, ahi, blo, bhi) ==
    LET blocks == {m \in (alo..(ahi - 1)) \X (blo..(bhi - 1)) \X (1..(ahi - alo)) :
                      /\ m[1] + m[3] <= ahi
                      /\ m[2] + m[3] <= bhi
                      /\ BlockMatches(a, b, m[1], m[2], m[3])}
    IN  IF blocks = {} THEN <<alo, blo, 0>>
        ELSE CHOOSE m \in blocks : \A o \in blocks :
                \/ m[3] > o[3]
                \/ (m[3] = o[3] /\ m[1] < o[1])
                \/ (m[3] = o[3] /\ m[1] = o[1] /\ m[2] <= o[2])

\* the total size of SequenceMatcher.get_matching_blocks(): the longest
\* match, then the same to its left and to its right
RECURSIVE MatchedSize(_, _, _, _, _, _)
MatchedSize(a, b, alo, ahi, blo, bhi) ==
    IF alo >= ahi \/ blo >= bhi THEN 0
    ELSE
    LET m == FindLongestMatch(a, b, alo, ahi, blo, bhi)
    IN  IF m[3] = 0 THEN 0
        ELSE m[3] + MatchedSize(a, b, alo, m[1], blo, m[2])
                  + MatchedSize(a, b, m[1] + m[3], ahi, m[2] + m[3], bhi)

\* SequenceMatcher(None, a, b).ratio(): 2.0 * matches / (len(a) + len(b)),
\* and 1.0 for two empty sequences.  The float quotient of two small integers
\* is the same float exactly when the fractions are equal, so the fraction
\* stands for the float in max() and index().
Ratio(a, b) ==
    IF Len(a) + Len(b) = 0 THEN <<1, 1>>
    ELSE <<2 * MatchedSize(a, b, 0, Len(a), 0, Len(b)), Len(a) + Len(b)>>

\* max(xs)
Max(xs) ==
    IF Len(xs) = 0 THEN Raise("ValueError")
    ELSE Ret(xs[CHOOSE i \in 1..Len(xs) :
                    \A j \in 1..Len(xs) : ~FracLess(xs[i], xs[j])])

\* the last position that holds a value equal to x
IndexLast(xs, x) ==
    CHOOSE i \in 1..Len(xs) :
        FracEq(xs[i], x) /\ \A j \in 1..Len(xs) : FracEq(xs[j], x) => j <= i

\* xs.index(x), for x in xs: the first position that holds a value equal
\* to x (a position of the model's sequence, counted from 1)
Index(xs, x) ==
    CHOOSE i \in 1..Len(xs) :
        FracEq(xs[i], x) /\ \A j \in 1..Len(xs) : FracEq(xs[j], x) => i <= j

\* similarities = [SequenceMatcher(None, search, i).ratio() for i in names]
Similarities(search, names) == [i \in 1..Len(names) |-> Ratio(search, names[i])]

\* names[similarities.index(max(similarities))]
BestMatch(search, names) ==
    LET similarities == Similarities(search, names)
        best == Max(similarities)
    IN  IF best.kind = "raise" THEN best
        ELSE Ret(names[Index(similarities, best.val)])

\* viewAccount up to the account name it goes on to show: the name of the
\* URL when there is one, else the best match of the search argument (of the
\* account argument when there is no search argument) among db.getAccounts();
\* without either, a redirect to home.  An absent argument is <<>>.
viewAccount(account_name, search, account, accounts) ==
    IF account_name # <<>> THEN Ret(account_name)
    ELSE
    LET sought == IF search # <<>> THEN search ELSE account
    IN  IF sought = <<>> THEN [kind |-> "redirect", exc |-> "", val |-> <<>>]
        ELSE BestMatch(sought, accounts)

\* viewUser up to the user name it goes on to show
viewUser(user_name, search, users) ==
    IF user_name # <<>> THEN Ret(user_name)
    ELSE IF search = <<>> THEN [kind |-> "redirect", exc |-> "", val |-> <<>>]
    ELSE BestMatch(search, users)

(* --------------------------- the dicts given -------------------------- *)

\* The dict given to the single point branch of normalize, when the call has
\* ended: data['total'] = score is reached when all_scores is set and nothing
\* before it raised, and the dict returned is then the dict given.
normalizePointAfter(rec, all_scores, ideal) ==
    LET r == normalizePoint(rec, all_scores, ideal)
    IN  IF all_scores /\ r.kind = "return" THEN r.val ELSE rec

\* the by_date loop gets as far as its j-th day and that day's call returns
RECURSIVE ByDateReturns(_, _, _, _)
ByDateReturns(items, j, all_scores, ideal) ==
    /\ j >= 1
    /\ j = 1 \/ ByDateReturns(items, j - 1, all_scores, ideal)
    /\ LET got == Lookup(items, ByDateSubscript(items[j][1]))
       IN  /\ got.kind = "return"
           /\ normalizePoint(got.val, all_scores, ideal).kind = "return"

\* The collection given to normalize, when the call has ended.  With by_date
\* each day's call is given the dict data[date] itself; without, the sums go
\* into data_total, a dict of the call's own.
normalizeAfter(data, all_scores, by_date, ideal) ==
    IF Contains(data, "memuse")
    THEN RecordData(normalizePointAfter(data.rec, all_scores, ideal))
    ELSE IF by_date
    THEN CollectionData(
            [i \in 1..Len(data.items) |->
                IF \E j \in 1..Len(data.items) :
                      /\ ByDateSubscript(data.items[j][1]) = data.items[i][1]
                      /\ ByDateReturns(data.items, j, all_scores, ideal)
                THEN <<data.items[i][1],
                       normalizePointAfter(data.items[i][2], all_scores, ideal)>>
                ELSE data.items[i]])
    ELSE data

\* the usage records db.getStats hands to home, by owner
homeBefore(view, names, stats) ==
    [n \in {names[i] : i \in 1..Len(names)} |-> getStats(view, n, stats)]

\* the same records when home has ended: the gathering loop has assigned
\* data['owner'] in each; the key function normalize(x) and the rows are
\* made without all_scores
homeAfter(view, names, stats) ==
    [n \in {names[i] : i \in 1..Len(names)} |->
        AddOwner(getStats(view, n, stats), n)]

\* the dicts a request hands to the code, before the call
InputsBefore(req) ==
    IF req.op \in {"getScore", "normalize"} THEN req.data
    ELSE IF req.op = "getTop" THEN req.stats
    ELSE IF req.op = "home" THEN homeBefore(req.view, req.names, req.stats)
    ELSE <<>>

\* the same dicts when the call has ended: getScore and getTop assign into
\* none of them
InputsAfter(req, ideal) ==
    IF req.op = "getScore" THEN req.data
    ELSE IF req.op = "normalize"
    THEN normalizeAfter(req.data, req.all_scores, req.by_date, ideal)
    ELSE IF req.op = "getTop" THEN req.stats
    ELSE IF req.op = "home" THEN homeAfter(req.view, req.names, req.stats)
    ELSE <<>>

(* ------------------------------- inputs ------------------------------- *)

\* the sequences over S of length lo..hi
SeqsOf(S, lo, hi) == UNION {[1..n -> S] : n \in lo..hi}

\* the sequences without repetition
Distinct(seqs) == {q \in seqs : \A i, j \in 1..Len(q) : q[i] = q[j] => i = j}

\* usage records with the given keys and fields in 0..max
Records(keys, max) == [keys -> 0..max]

NamePool == <<"alice", "bob", "carol", "dave", "erin">>

\* owner names of the database, for the rankings
Owners == {NamePool[i] : i \in 1..MaxEntities}

DigitPool == <<"1", "2", "3", "4", "5", "6", "7", "8", "9">>

\* date keys such as '1/2'
DateKeys == {<<"1", "/", DigitPool[i]>> : i \in 1..MaxDays}

\* date-keyed collections of usage records
Collections ==
    UNION {{[i \in 1..Len(ks) |-> <<ks[i], rs[i]>>] :
                rs \in [1..Len(ks) -> Records(UsageKeys, MaxQty)]} :
           ks \in Distinct(SeqsOf(DateKeys, 0, MaxDays))}

\* usage records that are followed through a call: the used memory and cpu
\* time are MaxQty, each of the other quantities is 0 or MaxQty
FrameRecords ==
    {r \in [UsageKeys -> {0, MaxQty}] : r["memuse"] = MaxQty /\ r["cputime"] = MaxQty}

FrameOwners == {NamePool[i] : i \in 1..MaxFrame}

FrameOwnerLists == Distinct(SeqsOf(FrameOwners, 0, MaxFrame))

\* date-keyed collections of such records
FrameCollections ==
    UNION {{[i \in 1..Len(ks) |-> <<ks[i], rs[i]>>] :
                rs \in [1..Len(ks) -> FrameRecords]} :
           ks \in Distinct(SeqsOf({<<"1", "/", DigitPool[i]>> : i \in 1..MaxFrame},
                                  0, MaxFrame))}

Alphabet == {"a", "b"}

\* names and search strings; <<>> is an absent one
Strings == SeqsOf(Alphabet, 1, MaxLen)

(* ---------------------------- state machine --------------------------- *)

NoRequest == [op |-> "none"]

NoResponse == [kind |-> "none", exc |-> "", val |-> <<>>]

\* the ideal scores a configuration file sets
IdealScores == {2}

\* the module is loaded: normalization is off with ideal_score 0, or the
\* SCORES normalize option holds 'score' and ideal_score is the configured one
Init ==
    /\ \/ normalize_by_score = FALSE /\ ideal_score = 0
       \/ normalize_by_score = TRUE /\ ideal_score \in IdealScores
    /\ pc = "idle"
    /\ request = NoRequest
    /\ response = NoResponse
    /\ heap = <<>>

\* a request is served, when none is being served: its outcome is recorded
Serve(req, resp) ==
    /\ pc' = "done"
    /\ request' = req
    /\ response' = resp
    /\ heap' = InputsAfter(req, ideal_score)
    /\ UNCHANGED <<normalize_by_score, ideal_score>>

GetScore ==
    /\ pc = "idle"
    /\ \E data \in Records(ScoreKeys, MaxVal), all_scores \in BOOLEAN :
        Serve([op |-> "getScore", data |-> data, all_scores |-> all_scores],
              getScore(data, all_scores, normalize_by_score, ideal_score))

NormalizeRecord ==
    /\ pc = "idle"
    /\ \E rec \in Records(UsageKeys, MaxVal), all_scores \in BOOLEAN, by_date \in BOOLEAN :
        Serve([op |-> "normalize", data |-> RecordData(rec),
               all_scores |-> all_scores, by_date |-> by_date],
              normalize(RecordData(rec), all_scores, by_date, ideal_score))

NormalizeCollection ==
    /\ pc = "idle"
    /\ \E items \in Collections, all_scores \in BOOLEAN, by_date \in BOOLEAN :
        Serve([op |-> "normalize", data |-> CollectionData(items),
               all_scores |-> all_scores, by_date |-> by_date],
              normalize(CollectionData(items), all_scores, by_date, ideal_score))

GetTop ==
    /\ pc = "idle"
    /\ \E names \in Distinct(SeqsOf(Owners, 0, MaxEntities)),
       account_type \in {"users", "accounts", "other"},
       num \in 0..MaxNum :
        \E stats \in [{names[i] : i \in 1..Len(names)} -> Records(UsageKeys, MaxQty)] :
            Serve([op |-> "getTop", account_type |-> account_type, num |-> num,
                   names |-> names, stats |-> stats],
                  getTop(account_type, num, names, stats, ideal_score))

Home ==
    /\ pc = "idle"
    /\ \E names \in Distinct(SeqsOf(Owners, 0, MaxEntities)),
       view \in {"none", "cluster", "accounts", "users"} :
        \E stats \in [{names[i] : i \in 1..Len(names)} -> Records(UsageKeys, MaxQty)] :
            Serve([op |-> "home", view |-> view, names |-> names, stats |-> stats],
                  home(view, names, stats, ideal_score))

ViewAccountNamed ==
    /\ pc = "idle"
    /\ \E account_name \in Strings :
        Serve([op |-> "viewAccount", name |-> account_name, search |-> <<>>,
               account |-> <<>>, names |-> <<>>],
              viewAccount(account_name, <<>>, <<>>, <<>>))

ViewAccountSearch ==
    /\ pc = "idle"
    /\ \E search \in Strings \cup {<<>>}, account \in Strings \cup {<<>>},
       accounts \in SeqsOf(Strings, 0, MaxCands) :
        /\ search # <<>> => account = <<>>
        /\ Serve([op |-> "viewAccount", name |-> <<>>, search |-> search,
                  account |-> account, names |-> accounts],
                 viewAccount(<<>>, search, account, accounts))

ViewUserNamed ==
    /\ pc = "idle"
    /\ \E user_name \in Strings :
        Serve([op |-> "viewUser", name |-> user_name, search |-> <<>>,
               account |-> <<>>, names |-> <<>>],
              viewUser(user_name, <<>>, <<>>))

ViewUserSearch ==
    /\ pc = "idle"
    /\ \E search \in Strings \cup {<<>>}, users \in SeqsOf(Strings, 0, MaxCands) :
        Serve([op |-> "viewUser", name |-> <<>>, search |-> search,
               account |-> <<>>, names |-> users],
              viewUser(<<>>, search, users))

\* the response is handed back and the next request can be served
Respond ==
    /\ pc = "done"
    /\ pc' = "idle"
    /\ request' = NoRequest
    /\ response' = NoResponse
    /\ heap' = <<>>
    /\ UNCHANGED <<normalize_by_score, ideal_score>>

Next ==
    \/ GetScore
    \/ NormalizeRecord
    \/ NormalizeCollection
    \/ GetTop
    \/ Home
    \/ ViewAccountNamed
    \/ ViewAccountSearch
    \/ ViewUserNamed
    \/ ViewUserSearch
    \/ Respond

Spec == Init /\ [][Next]_vars

NextResolve ==
    \/ ViewAccountNamed
    \/ ViewAccountSearch
    \/ ViewUserNamed
    \/ ViewUserSearch
    \/ Respond

SpecResolve == Init /\ [][NextResolve]_vars

\* the scoring and ranking calls on records that are followed through the call
FrameNormalizeCollection ==
    /\ pc = "idle"
    /\ \E items \in FrameCollections, all_scores \in BOOLEAN, by_date \in BOOLEAN :
        Serve([op |-> "normalize", data |-> CollectionData(items),
               all_scores |-> all_scores, by_date |-> by_date],
              normalize(CollectionData(items), all_scores, by_date, ideal_score))

FrameGetTop ==
    /\ pc = "idle"
    /\ \E names \in FrameOwnerLists,
          account_type \in {"users", "accounts", "other"},
          num \in {0, MaxNum} :
        \E stats \in [{names[i] : i \in 1..Len(names)} -> FrameRecords] :
            Serve([op |-> "getTop", account_type |-> account_type, num |-> num,
                   names |-> names, stats |-> stats],
                  getTop(account_type, num, names, stats, ideal_score))

FrameHome ==
    /\ pc = "idle"
    /\ \E names \in FrameOwnerLists,
          view \in {"none", "cluster", "accounts", "users"} :
        \E stats \in [{names[i] : i \in 1..Len(names)} -> FrameRecords] :
            Serve([op |-> "home", view |-> view, names |-> names, stats |-> stats],
                  home(view, names, stats, ideal_score))

NextFrame ==
    \/ GetScore
    \/ NormalizeRecord
    \/ FrameNormalizeCollection
    \/ FrameGetTop
    \/ FrameHome
    \/ Respond

SpecFrame == Init /\ [][NextFrame]_vars

(* ------------------------- terms of the claims ------------------------ *)

Done == pc = "done"

\* a ranking request: getTop for users or accounts, or home
IsGetTop == Done /\ request.op = "getTop" /\ request.account_type \in {"users", "accounts"}

IsHome == Done /\ request.op = "home"

\* the usage records of the owners of a ranking request, by name
StatsOf(name) == request.stats[name]

\* all requested quantities are positive
Eligible(rec) == rec["memreq"] > 0 /\ rec["cpureq"] > 0 /\ rec["timereq"] > 0

\* no denominator of the three ratios is 0
Scorable(rec) == rec["memreq"] > 0 /\ rec["timereq"] > 0 /\ rec["cpureq"] * rec["timeuse"] > 0

\* the mean of the memory, cpu and time ratios of a scorable record
MeanRatio(rec) ==
    FracMul(FracAdd(FracAdd(<<rec["memuse"], rec["memreq"]>>,
                            <<rec["cputime"], rec["cpureq"] * rec["timeuse"]>>),
                    <<rec["timeuse"], rec["timereq"]>>),
            <<1, 3>>)

\* the owners of a ranking request, as a set
RequestOwners == {request.names[i] : i \in 1..Len(request.names)}

\* the names a ranking answered with, in order: getTop returns the names,
\* home the rows <<rank, name, total>>
RankedNames ==
    IF request.op = "getTop" THEN response.val
    ELSE [i \in 1..Len(response.val) |-> response.val[i][2]]

\* alphabetical order of the owner names
NameRank(name) == CHOOSE i \in 1..Len(NamePool) : NamePool[i] = name

(* -------------------------------- claims ------------------------------ *)

\* C1: a ranking of two or more owners that can all be scored answers with
\* a ranked list in which, for every adjacent pair (a, b), the score of a is
\* greater than or equal to that of b, and of two adjacent owners with equal
\* scores the one with the smaller name comes first.
C1_RankedDescending ==
    (/\ \/ IsGetTop /\ request.num >= 2
        \/ IsHome
     /\ Len(request.names) >= 2
     /\ \A n \in RequestOwners : Eligible(StatsOf(n)) /\ Scorable(StatsOf(n))) =>
        /\ response.kind = "return"
        /\ Len(RankedNames) >= 2
        /\ \A i \in 1..(Len(RankedNames) - 1) :
            LET a == RankedNames[i]
                b == RankedNames[i + 1]
            IN  /\ ~FracLess(MeanRatio(StatsOf(a)), MeanRatio(StatsOf(b)))
                /\ FracEq(MeanRatio(StatsOf(a)), MeanRatio(StatsOf(b)))
                       => NameRank(a) < NameRank(b)

\* C2: a ranking (getTop, home) answers with a list that holds no owner
\* whose record has memory requested = 0, cores requested = 0 or time
\* requested = 0: every owner in the output has all three > 0.
C2_IneligibleAbsent ==
    (IsGetTop \/ IsHome) =>
        /\ response.kind = "return"
        /\ \A i \in 1..Len(RankedNames) : Eligible(StatsOf(RankedNames[i]))

\* C3: a ranking with exactly one owner whose record has a denominator
\* equal to 0 (memory requested, time requested, or cores requested * time
\* used) completes: that owner is left out and all the other owners are
\* ranked and returned.
C3_BadRecordExcluded ==
    LET bad == {n \in RequestOwners : ~Scorable(StatsOf(n))}
    IN  (/\ \/ IsGetTop /\ request.num >= Len(request.names)
            \/ IsHome
         /\ Cardinality(bad) = 1) =>
            /\ response.kind = "return"
            /\ {RankedNames[i] : i \in 1..Len(RankedNames)} = RequestOwners \ bad

\* C4: on both scoring paths (getScore, the single record branch of
\* normalize) the total score of a record with non-zero denominators is the
\* mean of its three ratios times 100, divided by the divisor, which is 1
\* with normalization off and ideal_score with it on.
C4_ScoreIsMeanOverDivisor ==
    LET divisor == IF normalize_by_score THEN ideal_score ELSE 1
        rec == IF request.op = "getScore"
               THEN [k \in UsageKeys |->
                        request.data[IF k = "cpureq" THEN "coresreq" ELSE k]]
               ELSE request.data.rec
        total == IF ~request.all_scores THEN response.val
                 ELSE IF request.op = "getScore" THEN response.val.total
                 ELSE response.val["total"]
    IN  (/\ Done
         /\ \/ request.op = "getScore"
            \/ request.op = "normalize" /\ request.data.shape = "record"
         /\ Scorable(rec)) =>
            /\ response.kind = "return"
            /\ FracEq(total, FracMul(MeanRatio(rec), <<100, divisor>>))

\* C5: getTop returns exactly min(n, number of eligible owners) owners, and
\* the ranks of home's listing are 1, 2, ..., k, each row's rank being its
\* position, one row for each eligible owner.
C5_CountAndRanks ==
    LET eligible == {n \in RequestOwners : Eligible(StatsOf(n))}
        k == Cardinality(eligible)
    IN  /\ IsGetTop =>
            /\ response.kind = "return"
            /\ Len(response.val) = IF request.num < k THEN request.num ELSE k
        /\ IsHome =>
            /\ response.kind = "return"
            /\ Len(response.val) = k
            /\ \A i \in 1..Len(response.val) : response.val[i][1] = i

\* the request is normalize on a collection of records by date
IsNormalizeCollection ==
    Done /\ request.op = "normalize" /\ request.data.shape = "collection"

\* the date keys of a dict kept as a sequence of pairs
KeysOf(items) == {items[i][1] : i \in 1..Len(items)}

\* C6: normalize on an empty collection does not raise: with by_date off it
\* returns (the score unavailable result), with by_date on it returns the
\* empty mapping.
C6_EmptyInputNoCrash ==
    (IsNormalizeCollection /\ request.data.items = <<>>) =>
        /\ response.kind = "return"
        /\ request.by_date => response.val = <<>>

\* C7: normalize with by_date on a collection of records that can be scored
\* returns a mapping whose keys are the dates of the input, and the value of
\* each date d is the score of d's own record alone.
C7_ByDateOwnRecord ==
    (/\ IsNormalizeCollection
     /\ request.by_date
     /\ \A i \in 1..Len(request.data.items) : Scorable(request.data.items[i][2])) =>
        /\ response.kind = "return"
        /\ KeysOf(response.val) = KeysOf(request.data.items)
        /\ \A i \in 1..Len(response.val) :
            normalizePoint(Lookup(request.data.items, response.val[i][1]).val,
                           request.all_scores, ideal_score)
                = Ret(response.val[i][2])

\* the sum of every field over the records of a collection
RECURSIVE SumOfRecords(_, _)
SumOfRecords(items, i) ==
    IF i > Len(items) THEN [k \in UsageKeys |-> 0]
    ELSE [k \in UsageKeys |-> items[i][2][k] + SumOfRecords(items, i + 1)[k]]

\* C8: normalize without by_date on a collection of per-day records gives
\* what the single record score gives for the record whose every field is
\* the sum of that field over the input records (so the same for every
\* order of the input).
C8_TotalIsScoreOfSum ==
    (IsNormalizeCollection /\ ~request.by_date /\ request.data.items # <<>>) =>
        response = normalizePoint(SumOfRecords(request.data.items, 1),
                                  request.all_scores, ideal_score)

\* the record of a day on which nothing ran: all six quantities are 0
ZeroDay(rec) == \A k \in UsageKeys : rec[k] = 0

\* C9: normalize with by_date on a collection that holds a day whose record
\* has all six quantities equal to 0 answers with a mapping that has no key
\* for such a day.
C9_ZeroDayAbsent ==
    (/\ IsNormalizeCollection
     /\ request.by_date
     /\ \E i \in 1..Len(request.data.items) : ZeroDay(request.data.items[i][2])) =>
        /\ response.kind = "return"
        /\ \A i \in 1..Len(request.data.items) :
            ZeroDay(request.data.items[i][2])
                => request.data.items[i][1] \notin KeysOf(response.val)

\* the request is a name lookup: viewAccount or viewUser without a name in
\* the URL, with a search string and at least one candidate name
IsLookup ==
    /\ Done
    /\ request.op \in {"viewAccount", "viewUser"}
    /\ request.name = <<>>
    /\ (request.search # <<>> \/ request.account # <<>>)
    /\ request.names # <<>>

\* the string a lookup searches for
Sought == IF request.search # <<>> THEN request.search ELSE request.account

\* C10: for a non-empty candidate list the name lookup of viewAccount and
\* viewUser returns a candidate whose similarity ratio to the search string
\* is the maximum over all candidates, and of the candidates with that ratio
\* the one that comes first in the candidate list.
C10_BestMatchFirstMax ==
    IsLookup =>
        /\ response.kind = "return"
        /\ \E i \in 1..Len(request.names) :
            /\ response.val = request.names[i]
            /\ \A j \in 1..Len(request.names) :
                ~FracLess(Ratio(Sought, request.names[i]),
                          Ratio(Sought, request.names[j]))
            /\ \A j \in 1..(i - 1) :
                FracLess(Ratio(Sought, request.names[j]),
                         Ratio(Sought, request.names[i]))

\* a lookup in which two different candidates both have the maximum ratio,
\* less than 1, and the first of them is the answer
C10_Witness ==
    /\ IsLookup
    /\ Len(request.names) >= 2
    /\ request.names[1] # request.names[2]
    /\ FracEq(Ratio(Sought, request.names[1]), Ratio(Sought, request.names[2]))
    /\ FracLess(<<0, 1>>, Ratio(Sought, request.names[1]))
    /\ \A j \in 1..Len(request.names) :
        ~FracLess(Ratio(Sought, request.names[1]), Ratio(Sought, request.names[j]))
    /\ response = Ret(request.names[1])

\* the request is a scoring or ranking call
IsScoringOrRanking == Done /\ request.op \in {"getScore", "normalize", "getTop", "home"}

====
